---- MODULE Spec2Model ----
(***************************************************************************)
(* Pioneer Detection Method (src/pdm.py): compute_pioneer_weights_simple   *)
(* and pooled_forecast_simple, modelled over exact rationals with NaN.     *)
(*                                                                         *)
(* A float is a pair <<n, d>>: the rational n/d in lowest terms with       *)
(* d > 0, NaN == <<0, 0>>, or an infinity <<1, 0>>, <<-1, 0>>.  float64    *)
(* rounding is not modelled: every finite result is the exact real number. *)
(* A DataFrame is a sequence of rows (periods, in index order), each row a *)
(* sequence of values (experts, in column order); a Series is a sequence   *)
(* of values, one per period.                                              *)
(***************************************************************************)
EXTENDS Integers, Sequences, FiniteSets, TLC

VARIABLES forecasts, weights, pooled, pc

vars == <<forecasts, weights, pooled, pc>>

(* ------------------------------ bounds --------------------------------- *)
\* frames have at most MaxT periods, at most MaxN experts and at most
\* MaxCells cells (periods x experts)
MaxT == 3

MaxN == 3

MaxCells == 6

\* defined forecasts are the integers 0..MaxVal
MaxVal == 3

\* frames handed to the pooler alone have at most MaxPoolCells cells
MaxPoolCells == 2

(* --------------------------- float values ------------------------------ *)
NaN == <<0, 0>>

isna(a) == a = NaN

AbsInt(n) == IF n < 0 THEN -n ELSE n

RECURSIVE Gcd(_, _)
Gcd(a, b) == IF b = 0 THEN a ELSE Gcd(b, a % b)

\* the float n/d in lowest terms; 0/0 is NaN and n/0 an infinity
Frac(n, d) ==
    IF d = 1 THEN <<n, 1>>
    ELSE IF n = 0 /\ d = 0 THEN NaN
    ELSE LET g == Gcd(AbsInt(n), AbsInt(d))
             s == IF d < 0 THEN -1 ELSE 1
         IN  <<(s * n) \div g, (s * d) \div g>>

Float(n) == <<n, 1>>

Zero == Float(0)

One == Float(1)

fadd(a, b) ==
    IF isna(a) \/ isna(b) THEN NaN
    ELSE Frac(a[1] * b[2] + b[1] * a[2], a[2] * b[2])

fsub(a, b) ==
    IF isna(a) \/ isna(b) THEN NaN
    ELSE Frac(a[1] * b[2] - b[1] * a[2], a[2] * b[2])

fmul(a, b) ==
    IF isna(a) \/ isna(b) THEN NaN
    ELSE Frac(a[1] * b[1], a[2] * b[2])

fdiv(a, b) ==
    IF isna(a) \/ isna(b) THEN NaN
    ELSE Frac(a[1] * b[2], a[2] * b[1])

fabs(a) == <<AbsInt(a[1]), a[2]>>

\* a < b; a comparison with a NaN operand is False
flt(a, b) ==
    /\ ~isna(a)
    /\ ~isna(b)
    /\ IF a[2] = 0 /\ b[2] = 0 THEN a[1] < b[1]
       ELSE a[1] * b[2] < b[1] * a[2]

fgt(a, b) == flt(b, a)

(* ------------------------- pandas primitives --------------------------- *)
\* a Series / a row with the elements of s, as a sequence
Series(s) == SubSeq(s, 1, Len(s))

\* the DataFrame of T rows and N columns whose cell (t, i) is Cell(t, i)
DataFrame(T, N, Cell(_, _)) ==
    Series([t \in 1..T |-> Series([i \in 1..N |-> Cell(t, i)])])

NRows(df) == Len(df)

NCols(df) == IF Len(df) = 0 THEN 0 ELSE Len(df[1])

\* sum of the non-NaN entries among the first n entries of row r
RECURSIVE SumN(_, _)
SumN(r, n) ==
    IF n = 0 THEN Zero
    ELSE IF isna(r[n]) THEN SumN(r, n - 1)
    ELSE fadd(SumN(r, n - 1), r[n])

\* number of non-NaN entries among the first n entries of row r
RECURSIVE CountN(_, _)
CountN(r, n) ==
    IF n = 0 THEN 0
    ELSE CountN(r, n - 1) + (IF isna(r[n]) THEN 0 ELSE 1)

\* DataFrame.sum(axis=1, min_count=mc) on one row: NaN-skipping sum, NaN
\* when fewer than mc entries are defined
RowSum(r, mc) ==
    IF CountN(r, Len(r)) < mc THEN NaN ELSE SumN(r, Len(r))

\* DataFrame.mean(axis=1) on one row: NaN-skipping mean, NaN when no entry
\* is defined
RowMean(r) ==
    LET c == CountN(r, Len(r))
    IN  IF c = 0 THEN NaN ELSE fdiv(SumN(r, Len(r)), Float(c))

\* DataFrame.drop(columns=col) on one row
DropCol(r, col) ==
    Series([j \in 1..(Len(r) - 1) |-> IF j < col THEN r[j] ELSE r[j + 1]])

\* DataFrame.diff(): row t minus row t-1, NaN in the first row
diff(A) ==
    LET Cell(t, i) == IF t = 1 THEN NaN ELSE fsub(A[t][i], A[t - 1][i])
    IN  DataFrame(NRows(A), NCols(A), Cell)

\* DataFrame.shift(2): row t-2, NaN in the first two rows
shift_two(A) ==
    LET Cell(t, i) == IF t <= 2 THEN NaN ELSE A[t - 2][i]
    IN  DataFrame(NRows(A), NCols(A), Cell)

\* DataFrame.shift(1): row t-1, NaN in the first row
shift(A) ==
    LET Cell(t, i) == IF t = 1 THEN NaN ELSE A[t - 1][i]
    IN  DataFrame(NRows(A), NCols(A), Cell)

\* DataFrame.abs()
abs(A) ==
    LET Cell(t, i) == fabs(A[t][i])
    IN  DataFrame(NRows(A), NCols(A), Cell)

(* ------------------ compute_pioneer_weights_simple --------------------- *)
\* Step 0: for each column, the mean of the other columns
m_minus(X) ==
    LET Cell(t, col) == RowMean(DropCol(X[t], col))
    IN  DataFrame(NRows(X), NCols(X), Cell)

\* the signed difference X - m_minus, without the absolute value
distance_signed(X, mm) ==
    LET Cell(t, i) == fsub(X[t][i], mm[t][i])
    IN  DataFrame(NRows(X), NCols(X), Cell)

\* the distance of each expert to the mean of the others
distance(X, mm) ==
    LET Cell(t, i) == fsub(X[t][i], mm[t][i])
    IN  abs(DataFrame(NRows(X), NCols(X), Cell))

\* Step 1: distance < distance_prev
cond_distance(dist, dist_prev) ==
    LET Cell(t, i) == flt(dist[t][i], dist_prev[t][i])
    IN  DataFrame(NRows(dist), NCols(dist), Cell)

\* delta_m.abs() >= delta_X.abs()
cond_orientation_ge(dm, dX) ==
    LET adm == abs(dm)
        adX == abs(dX)
        Cell(t, i) == ~isna(adm[t][i]) /\ ~isna(adX[t][i])
                          /\ ~flt(adm[t][i], adX[t][i])
    IN  DataFrame(NRows(dm), NCols(dm), Cell)

\* Step 2: delta_m.abs() > delta_X.abs()
cond_orientation(dm, dX) ==
    LET adm == abs(dm)
        adX == abs(dX)
        Cell(t, i) == fgt(adm[t][i], adX[t][i])
    IN  DataFrame(NRows(dm), NCols(dm), Cell)

\* Step 3: delta_m.abs() + delta_X.abs()
denom(dm, dX) ==
    LET adm == abs(dm)
        adX == abs(dX)
        Cell(t, i) == fadd(adm[t][i], adX[t][i])
    IN  DataFrame(NRows(dm), NCols(dm), Cell)

\* denom / delta_m.abs(): the operands exchanged
proportion_inverse(dm, dn) ==
    LET adm == abs(dm)
        Cell(t, i) == fdiv(dn[t][i], adm[t][i])
    IN  DataFrame(NRows(dm), NCols(dm), Cell)

\* Step 3: delta_m.abs() / denom
proportion(dm, dn) ==
    LET adm == abs(dm)
        Cell(t, i) == fdiv(adm[t][i], dn[t][i])
    IN  DataFrame(NRows(dm), NCols(dm), Cell)

\* mask without the orientation condition
mask_no_orientation(cd, co, dn) ==
    LET Cell(t, i) == cd[t][i] /\ fgt(dn[t][i], Zero)
    IN  DataFrame(NRows(cd), NCols(cd), Cell)

\* cond_distance & cond_orientation & (denom > 0)
mask(cd, co, dn) ==
    LET Cell(t, i) == cd[t][i] /\ co[t][i] /\ fgt(dn[t][i], Zero)
    IN  DataFrame(NRows(cd), NCols(cd), Cell)

\* proportion.where(mask): NaN where the mask is False
raw_where_nan(p, k) ==
    LET Cell(t, i) == IF k[t][i] THEN p[t][i] ELSE NaN
    IN  DataFrame(NRows(p), NCols(p), Cell)

\* proportion.where(mask, 0.0)
raw(p, k) ==
    LET Cell(t, i) == IF k[t][i] THEN p[t][i] ELSE Zero
    IN  DataFrame(NRows(p), NCols(p), Cell)

\* raw.sum(axis=1)
row_sums(R) == Series([t \in 1..NRows(R) |-> RowSum(R[t], 0)])

\* Series.replace(0.0, 1.0) on one entry
replace_zero_by_one(s) == IF s = Zero THEN One ELSE s

\* Series.replace(0.0, np.nan) on one entry
replace_zero(s) == IF s = Zero THEN NaN ELSE s

\* raw.div(row_sums.replace(0.0, np.nan), axis=0)
normalise(R, rs) ==
    LET Cell(t, i) == fdiv(R[t][i], replace_zero(rs[t]))
    IN  DataFrame(NRows(R), NCols(R), Cell)

\* the local variables of compute_pioneer_weights_simple at its return
Engine(X) ==
    LET mm == m_minus(X)
        dX == diff(X)
        dm == diff(mm)
        dist == distance(X, mm)
        dist_prev == shift(dist)
        cd == cond_distance(dist, dist_prev)
        co == cond_orientation(dm, dX)
        dn == denom(dm, dX)
        p == proportion(dm, dn)
        k == mask(cd, co, dn)
        R == raw(p, k)
        rs == row_sums(R)
    IN  [m_minus |-> mm, delta_X |-> dX, delta_m |-> dm,
         distance |-> dist, distance_prev |-> dist_prev,
         cond_distance |-> cd, cond_orientation |-> co,
         denom |-> dn, proportion |-> p, mask |-> k, raw |-> R,
         row_sums |-> rs, weights |-> normalise(R, rs)]

compute_pioneer_weights_simple(X) == Engine(X).weights

(* ----------------------- pooled_forecast_simple ------------------------ *)
\* (forecasts * weights).sum(axis=1, min_count=1)
weighted_sum(F, W) ==
    LET Cell(t, i) == fmul(F[t][i], W[t][i])
        prod == DataFrame(NRows(F), NCols(F), Cell)
    IN  Series([t \in 1..NRows(F) |-> RowSum(prod[t], 1)])

\* weights.sum(axis=1, min_count=1)
weight_sums(W) == Series([t \in 1..NRows(W) |-> RowSum(W[t], 1)])

\* weight_sums.isna() alone
no_pioneer_isna_only(ws) == Series([t \in 1..Len(ws) |-> isna(ws[t])])

\* (weight_sums == 0) alone
no_pioneer_zero_only(ws) == Series([t \in 1..Len(ws) |-> ws[t] = Zero])

\* weight_sums.isna() | (weight_sums == 0)
no_pioneer(ws) == Series([t \in 1..Len(ws) |-> isna(ws[t]) \/ ws[t] = Zero])

\* forecasts.mean(axis=1, skipna=False)
fallback_mean_noskip(F) ==
    Series([t \in 1..NRows(F) |->
        IF CountN(F[t], Len(F[t])) < Len(F[t]) THEN NaN ELSE RowMean(F[t])])

\* forecasts.mean(axis=1)
fallback_mean(F) == Series([t \in 1..NRows(F) |-> RowMean(F[t])])

pooled_forecast_simple(F, W) ==
    LET wsum == weighted_sum(F, W)
        np == no_pioneer(weight_sums(W))
        fb == fallback_mean(F)
    IN  Series([t \in 1..NRows(F) |-> IF np[t] THEN fb[t] ELSE wsum[t]])

(* ------------------------------ inputs --------------------------------- *)
ForecastValues == {NaN} \cup {Float(v) : v \in 0..MaxVal}

\* the T x N frames with cells in Vals
Frames(T, N, Vals) == [1..T -> [1..N -> Vals]]

\* the shapes with at most c cells
Shapes(c) == {s \in (1..MaxT) \X (1..MaxN) : s[1] * s[2] <= c}

\* the scenario of the specification: E1, E2, E3 over t = 0..3
Scenario ==
    << <<Float(10), Float(10), Float(10)>>,
       <<Float(11), Float(10), Float(9)>>,
       <<Float(13), Float(10), Float(9)>>,
       <<Float(13), Float(14), Float(15)>> >>

ForecastFrames ==
    UNION {Frames(s[1], s[2], ForecastValues) : s \in Shapes(MaxCells)}
        \cup {Scenario}

\* weights a caller may hand to the pooler
WeightValues == {NaN, Float(-1), Zero, Frac(1, 2), One}

PoolInputs ==
    UNION {Frames(s[1], s[2], ForecastValues) \X Frames(s[1], s[2], WeightValues)
               : s \in Shapes(MaxPoolCells)}

(* --------------------------- state machine ----------------------------- *)
\* a caller about to run the engine and then the pooler on its weights
Init ==
    /\ forecasts \in ForecastFrames
    /\ weights = <<>>
    /\ pooled = <<>>
    /\ pc = "start"

\* a caller about to run the pooler on weights of its own
InitPool ==
    /\ \E in \in PoolInputs : forecasts = in[1] /\ weights = in[2]
    /\ pooled = <<>>
    /\ pc = "weighted"

ComputeWeights ==
    /\ pc = "start"
    /\ weights' = compute_pioneer_weights_simple(forecasts)
    /\ pc' = "weighted"
    /\ UNCHANGED <<forecasts, pooled>>

PooledForecast ==
    /\ pc = "weighted"
    /\ pooled' = pooled_forecast_simple(forecasts, weights)
    /\ pc' = "done"
    /\ UNCHANGED <<forecasts, weights>>

Next == ComputeWeights \/ PooledForecast

Spec == Init /\ [][Next]_vars

NextPool == PooledForecast

SpecPool == InitPool /\ [][NextPool]_vars

(* ------------------------ the steps, cell by cell ---------------------- *)
\* mm is the frame of leave-one-out means m_-i[t] of forecasts
Periods == 1..NRows(forecasts)

Experts == 1..NCols(forecasts)

\* |x_i[t] - m_-i[t]|
Dist(mm, t, i) == fabs(fsub(forecasts[t][i], mm[t][i]))

\* |delta m_-i[t]|
AbsDeltaM(mm, t, i) == fabs(fsub(mm[t][i], mm[t - 1][i]))

\* |delta x_i[t]|
AbsDeltaX(t, i) == fabs(fsub(forecasts[t][i], forecasts[t - 1][i]))

\* Step 1: |x_i[t] - m_-i[t]| < |x_i[t-1] - m_-i[t-1]|
StepDistance(mm, t, i) == t > 1 /\ flt(Dist(mm, t, i), Dist(mm, t - 1, i))

\* Step 2: |delta m_-i[t]| > |delta x_i[t]|
StepOrientation(mm, t, i) ==
    t > 1 /\ fgt(AbsDeltaM(mm, t, i), AbsDeltaX(t, i))

\* Step 3: the denominator |delta m_-i[t]| + |delta x_i[t]|
StepDenominator(mm, t, i) ==
    IF t > 1 THEN fadd(AbsDeltaM(mm, t, i), AbsDeltaX(t, i)) ELSE NaN

(* ------------------------------ claims --------------------------------- *)
\* the engine has just returned: weights holds its output for forecasts
Weighted == pc = "weighted"

fle(a, b) == flt(a, b) \/ (~isna(a) /\ a = b)

AllNa(r) == \A i \in DOMAIN r : isna(r[i])

NoneNa(r) == \A i \in DOMAIN r : ~isna(r[i])

\* a weight row as the claims want it: all undefined, or all defined, in
\* [0,1], one of them positive, summing to 1
GoodRow(w) ==
    \/ AllNa(w)
    \/ /\ NoneNa(w)
       /\ \A i \in DOMAIN w : fle(Zero, w[i]) /\ fle(w[i], One)
       /\ \E i \in DOMAIN w : fgt(w[i], Zero)
       /\ SumN(w, Len(w)) = One

\* C1: every row of the engine's weights is entirely undefined, or entirely
\* defined with entries in [0,1], at least one strictly positive, summing
\* to exactly 1.
C1_RowSum == Weighted => \A t \in Periods : GoodRow(weights[t])

\* a defined row shared unevenly by two pioneers
C1_Witness ==
    /\ Weighted
    /\ \E t \in Periods : \E i, j \in Experts :
          /\ fgt(weights[t][i], weights[t][j])
          /\ fgt(weights[t][j], Zero)

\* C2: mask soundness: a strictly positive weight for (t, i) implies that
\* Step 1 and Step 2 held for expert i at t and that the Step 3 denominator
\* was strictly positive.
C2_MaskSoundness ==
    Weighted =>
        LET mm == m_minus(forecasts)
        IN  \A t \in Periods : \A i \in Experts :
              fgt(weights[t][i], Zero) =>
                  /\ StepDistance(mm, t, i)
                  /\ StepOrientation(mm, t, i)
                  /\ fgt(StepDenominator(mm, t, i), Zero)

\* an expert with positive weight beside one that passed Step 1 only
C2_Witness ==
    /\ Weighted
    /\ LET mm == m_minus(forecasts)
       IN  \E t \in Periods : \E i, j \in Experts :
             /\ fgt(weights[t][i], Zero)
             /\ StepDistance(mm, t, j) /\ ~StepOrientation(mm, t, j)
             /\ weights[t][j] = Zero

\* the pooler has returned: pooled holds its output for forecasts, weights
Pooled == pc = "done"

\* the sum of the weights of row t is undefined (all of them are) or 0
NoPioneerRow(t) ==
    AllNa(weights[t]) \/ SumN(weights[t], Len(weights[t])) = Zero

\* C3: fallback completeness: at every period where the sum of the weights
\* is undefined or exactly 0, pooled[t] is the unweighted mean of the
\* defined forecasts of the row.
C3_Fallback ==
    Pooled => \A t \in Periods :
        NoPioneerRow(t) => pooled[t] = RowMean(forecasts[t])

\* weights that cancel to 0 over forecasts whose weighted sum is not their mean
C3_Witness ==
    /\ Pooled
    /\ \E t \in Periods :
          /\ ~AllNa(weights[t])
          /\ \E i \in Experts : fgt(weights[t][i], Zero)
          /\ NoPioneerRow(t)
          /\ ~isna(weighted_sum(forecasts, weights)[t])
          /\ weighted_sum(forecasts, weights)[t] # RowMean(forecasts[t])
          /\ pooled[t] = RowMean(forecasts[t])

SomeTerm(t) ==
    \E i \in Experts : ~isna(forecasts[t][i]) /\ ~isna(weights[t][i])

C5_NoPioneerAtZero ==
    /\ Weighted => AllNa(weights[1])
    /\ Pooled => pooled[1] = RowMean(forecasts[1])

\* a first row of unequal forecasts, one of them missing, pooled to its
\* mean, before a period that has a pioneer
C5_Witness ==
    /\ Pooled
    /\ \E i, j \in Experts :
          /\ ~isna(forecasts[1][i]) /\ ~isna(forecasts[1][j])
          /\ forecasts[1][i] # forecasts[1][j]
    /\ ~NoneNa(forecasts[1])
    /\ pooled[1] = RowMean(forecasts[1])
    /\ \E t \in Periods : ~AllNa(weights[t])

\* C6: single-expert degeneracy: with one expert every weight is undefined
\* at every period, and pooled[t] is that expert's forecast at t.
C6_SingleExpert ==
    NCols(forecasts) = 1 =>
        /\ Weighted => \A t \in Periods : isna(weights[t][1])
        /\ Pooled => \A t \in Periods : pooled[t] = forecasts[t][1]

\* one expert over three periods, moving
C6_Witness ==
    /\ Pooled
    /\ NCols(forecasts) = 1
    /\ NRows(forecasts) = 3
    /\ NoneNa(<<forecasts[1][1], forecasts[2][1], forecasts[3][1]>>)
    /\ forecasts[2][1] # forecasts[1][1]
    /\ forecasts[3][1] # forecasts[2][1]
    /\ pooled = <<forecasts[1][1], forecasts[2][1], forecasts[3][1]>>

NaNRow == <<NaN, NaN, NaN>>

\* C7: the scenario: all weights undefined at t = 0, 1, 2 (no expert
\* passes Step 1), weights (1, 0, 0) at t = 3 (all pass Step 1, only E1
\* passes Step 2), and pooled = 10, 10, 32/3, 13.
C7_Scenario ==
    forecasts = Scenario =>
        /\ Weighted => LET mm == m_minus(forecasts) IN
              /\ weights = <<NaNRow, NaNRow, NaNRow, <<One, Zero, Zero>>>>
              /\ \A t \in Periods : \A i \in Experts :
                    fgt(weights[t][i], Zero)
                        <=> (StepDistance(mm, t, i) /\ StepOrientation(mm, t, i))
              /\ \A i \in Experts : ~StepDistance(mm, 2, i) /\ ~StepDistance(mm, 3, i)
              /\ \A i \in Experts : StepDistance(mm, 4, i)
              /\ StepOrientation(mm, 4, 1)
              /\ ~StepOrientation(mm, 4, 2) /\ ~StepOrientation(mm, 4, 3)
        /\ Pooled =>
              pooled = <<Float(10), Float(10), Frac(32, 3), Float(13)>>

C7_Witness == forecasts = Scenario /\ Pooled /\ Len(pooled) = 4

\* C8: period locality: in a frame of three or more periods, the weights
\* of period t are those the engine returns for the two-period frame made
\* of rows t-1 and t alone, so two frames that agree on these two rows get
\* the same weights at t.
C8_Locality ==
    (Weighted /\ NRows(forecasts) > 2) => \A t \in Periods : t > 1 =>
        weights[t] =
            compute_pioneer_weights_simple(<<forecasts[t - 1], forecasts[t]>>)[2]

\* three periods, a pioneer at the last, whose first period differs from
\* the second in every column
C8_Witness ==
    /\ Weighted
    /\ NRows(forecasts) = 3
    /\ ~AllNa(weights[3])
    /\ \A i \in Experts : forecasts[1][i] # forecasts[2][i]
    /\ weights[2] # weights[3]

InHalfOpenUnit(a) == fgt(a, Frac(1, 2)) /\ fle(a, One)

C9_Holds(mm, dn, p, R) ==
    \A t \in 1..Len(R) : \A i \in 1..Len(R[t]) :
        LET pioneer == StepDistance(mm, t, i) /\ StepOrientation(mm, t, i)
        IN  /\ pioneer =>
                  /\ fgt(StepDenominator(mm, t, i), Zero)
                  /\ fgt(dn[t][i], Zero)
                  /\ InHalfOpenUnit(p[t][i])
                  /\ R[t][i] = p[t][i]
            /\ R[t][i] = Zero \/ InHalfOpenUnit(R[t][i])
            /\ fgt(weights[t][i], Zero) <=> pioneer

\* C9: whenever Step 1 and Step 2 hold for (t, i), the Step 3 denominator
\* is strictly positive and the raw weight lies in (1/2, 1]; every raw
\* weight is 0 or in (1/2, 1]; the experts with positive final weight are
\* exactly those that pass Step 1 and Step 2.
C9_Proportion ==
    Weighted =>
        LET e == Engine(forecasts)
        IN  C9_Holds(e.m_minus, e.denom, e.proportion, e.raw)

\* a pioneer whose raw weight is strictly between 1/2 and 1
C9_Witness ==
    /\ Weighted
    /\ LET mm == m_minus(forecasts)
           R == Engine(forecasts).raw
       IN  \E t \in Periods : \E i \in Experts :
             /\ StepDistance(mm, t, i) /\ StepOrientation(mm, t, i)
             /\ flt(R[t][i], One)
             /\ fgt(weights[t][i], Zero)

\* every forecast of periods t-1 and t is defined
FullyDefined(t) == t > 1 /\ NoneNa(forecasts[t - 1]) /\ NoneNa(forecasts[t])

\* C10: with two or more experts, Step 2 never holds for all the experts
\* of a period whose forecasts and predecessors are all defined; every
\* defined weight row has an expert of weight exactly 0; with two experts
\* a defined row is (1, 0) or (0, 1).
C10_NotAllPioneers ==
    (Weighted /\ NCols(forecasts) >= 2) =>
      LET mm == m_minus(forecasts)
      IN  \A t \in Periods :
        /\ FullyDefined(t) => \E i \in Experts : ~StepOrientation(mm, t, i)
        /\ ~AllNa(weights[t]) => \E i \in Experts : weights[t][i] = Zero
        /\ (NCols(forecasts) = 2 /\ ~AllNa(weights[t])) =>
              weights[t] \in {<<One, Zero>>, <<Zero, One>>}

\* a fully defined period of three experts, two of them pioneers
C10_Witness ==
    /\ Weighted
    /\ \E t \in Periods :
          /\ FullyDefined(t)
          /\ \E i, j \in Experts :
                /\ i # j
                /\ fgt(weights[t][i], Zero) /\ fgt(weights[t][j], Zero)
          /\ \E i \in Experts : weights[t][i] = Zero

====
